---- MODULE Spec2Model ----
(***************************************************************************)
(* SpendWise tamper-evident ledger.                                        *)
(*                                                                         *)
(* Three specifications are given:                                         *)
(*   - Spec: backend/utils/blockchain_utils.py (SpendWiseBlockchain), the  *)
(*     hash / link / verify / rechain functions exercised on a caller's    *)
(*     list of entries (variable chain) the way tests/blockchain_test.py   *)
(*     drives them;                                                        *)
(*   - SpecFn: compute_hash, generate_merkle_tree, get_daily_merkle_root   *)
(*     and detect_tampering_patterns of the same class, each called once   *)
(*     on a given list (variable sample);                                  *)
(*   - SpecServer: backend/server.py create_transaction, the request       *)
(*     handler, one action per span between two awaits, over the           *)
(*     transactions and idempotent_requests collections.                   *)
(*                                                                         *)
(* Python values:                                                          *)
(*   str      -> TLA+ string                                               *)
(*   int      -> integer                                                   *)
(*   float    -> sign, whole part and thousandths (Float)                  *)
(*   None / missing key of an int field -> None (= -1, outside the         *)
(*               domains used for present values)                          *)
(*   Optional[dict] -> sequence of length 0 (None) or 1                    *)
(*   a date   -> the number of its day; day d is a range of timestamps in  *)
(*               the local time zone of the host (StartOfDay, EndOfDay)    *)
(* Dicts are values here; where a function assigns into the dicts of the   *)
(* list it was given, the list as its caller sees it afterwards is kept    *)
(* as well (variable passed).                                              *)
(***************************************************************************)
EXTENDS Integers, Sequences, FiniteSets, TLC

VARIABLES
    chain,          \* the caller's list of entry dicts (list order)
    phase,          \* "build" | "edited" | "repaired": position in the scenario
    edit,           \* the single-field edit applied to chain, if any
    repair,         \* the repair applied after the edit, if any
    report,         \* result of the last verify_chain_integrity call
    verified,       \* TRUE iff report is the report of the current chain
    ordered,        \* every append so far had a timestamp above its predecessor's
    passed,         \* the list object handed to the last rechain_transactions
                    \* call, as the caller sees it after the call
    sample,         \* the list of entry dicts handed to a library function
    result,         \* what the library function called on sample returned
    db,             \* db.transactions, in insertion order
    db_owner,       \* for each stored document, the user whose request stored it
    db_prior,       \* for each stored document, the owner's latest hashes at insert
    idem,           \* db.idempotent_requests, in insertion order
    clock,          \* datetime.utcnow() in ms
    req             \* per request: position and locals of create_transaction

libVars == <<chain, phase, edit, repair, report, verified, ordered, passed>>
srvVars == <<db, db_owner, db_prior, idem, clock, req>>
fnVars == <<sample, result>>
vars == <<chain, phase, edit, repair, report, verified, ordered, passed,
          sample, result, db, db_owner, db_prior, idem, clock, req>>

-----------------------------------------------------------------------------
(* Bounds *)

MaxLen == 3         \* entries appended to the caller's list
StartTime == 1000   \* timestamp of the first appended draft
MaxClock == 3       \* ticks of the server clock
MaxSample == 3      \* entries of a list handed to a library function

-----------------------------------------------------------------------------
(* Python value rendering *)

None == -1

\* str(int)
StrInt(n) == ToString(n)

\* transaction.get(key, "") rendered by str(): a missing key renders as ""
StrIntOrMissing(n) == IF n = None THEN "" ELSE ToString(n)

\* A float with at most three decimals: its sign, its whole part and its
\* thousandths (100.5 is Float(100, 500))
Float(whole, milli) == [neg |-> FALSE, whole |-> whole, milli |-> milli]

\* -a
Minus(a) == [a EXCEPT !.neg = ~a.neg]

\* a < 0 (-0.0 < 0 is False)
BelowZero(a) == a.neg /\ (a.whole > 0 \/ a.milli > 0)

\* a > n for an int n >= 0
Above(a, n) == ~a.neg /\ (a.whole > n \/ (a.whole = n /\ a.milli > 0))

\* str(float): 100.5 -> "100.5", 5000.0 -> "5000.0", 999.99 -> "999.99",
\* -1.5 -> "-1.5"; the digits after the point are those of the thousandths
\* without trailing zeros
StrFrac(f) ==
    IF f % 100 = 0 THEN ToString(f \div 100)
    ELSE IF f % 10 = 0
         THEN ToString(f \div 100) \o ToString((f \div 10) % 10)
         ELSE ToString(f \div 100) \o ToString((f \div 10) % 10) \o ToString(f % 10)

StrFloat(a) ==
    (IF a.neg THEN "-" ELSE "") \o ToString(a.whole) \o "." \o StrFrac(a.milli)

\* round(v, 2); the inputs used here never end in 5 thousandths, where the
\* result would depend on the binary representation of the float
Round2(a) ==
    LET r == ((a.milli + 5) \div 10) * 10
    IN  IF r >= 1000 THEN [a EXCEPT !.whole = @ + 1, !.milli = 0]
        ELSE [a EXCEPT !.milli = r]

\* hashlib.sha256(s.encode()).hexdigest(): an injective function of s
Sha256(s) == "sha256(" \o s \o ")"

-----------------------------------------------------------------------------
(* SpendWiseBlockchain *)

GENESIS_HASH == "0000000000000000000000000000000000000000000000000000000000000000"

\* Variant: categoryId left out of the hash input
HashInput_NoCategoryId(transaction) ==
    transaction.id \o "|" \o
    StrFloat(transaction.amount) \o "|" \o
    transaction.currency \o "|" \o
    StrIntOrMissing(transaction.timestamp) \o "|" \o
    (IF transaction.billDueAt # None /\ transaction.billDueAt # 0
        THEN StrInt(transaction.billDueAt) ELSE "") \o "|" \o
    transaction.previousHash \o "|" \o
    (IF transaction.nonce = None THEN "0" ELSE StrInt(transaction.nonce))

\* "|".join of the eight hashed fields, in the order of the code
HashInput(transaction) ==
    transaction.id \o "|" \o
    StrFloat(transaction.amount) \o "|" \o
    transaction.currency \o "|" \o
    transaction.categoryId \o "|" \o
    StrIntOrMissing(transaction.timestamp) \o "|" \o
    (IF transaction.billDueAt # None /\ transaction.billDueAt # 0
        THEN StrInt(transaction.billDueAt) ELSE "") \o "|" \o
    transaction.previousHash \o "|" \o
    (IF transaction.nonce = None THEN "0" ELSE StrInt(transaction.nonce))

\* Variant: version is hashed as a ninth field
compute_hash_WithVersion(transaction) ==
    Sha256(HashInput(transaction) \o "|" \o StrInt(transaction.version))

compute_hash(transaction) == Sha256(HashInput(transaction))

\* Variant: currentHash computed before previousHash and nonce are set
create_genesis_transaction_HashFirst(transaction_data) ==
    [transaction_data EXCEPT !.currentHash = compute_hash(transaction_data),
                             !.previousHash = GENESIS_HASH, !.nonce = 0]

\* transaction_data[...] = ... on the draft dict, which is returned
create_genesis_transaction(transaction_data) ==
    LET t1 == [transaction_data EXCEPT !.previousHash = GENESIS_HASH, !.nonce = 0]
    IN  [t1 EXCEPT !.currentHash = compute_hash(t1)]

\* Variant: linked to the previous entry's previousHash
create_chained_transaction_StaleLink(transaction_data, previous_transaction) ==
    LET t1 == [transaction_data EXCEPT
                 !.previousHash = previous_transaction.previousHash, !.nonce = 0]
    IN  [t1 EXCEPT !.currentHash = compute_hash(t1)]

\* previous_transaction.get("currentHash", GENESIS_HASH): every entry that is
\* passed as previous has the key
create_chained_transaction(transaction_data, previous_transaction) ==
    LET t1 == [transaction_data EXCEPT
                 !.previousHash = previous_transaction.currentHash, !.nonce = 0]
    IN  [t1 EXCEPT !.currentHash = compute_hash(t1)]

\* previous_transaction: <<>> for None, <<p>> for a dict p
create_new_transaction(transaction_data, previous_transaction) ==
    IF previous_transaction # <<>>
    THEN create_chained_transaction(transaction_data, previous_transaction[1])
    ELSE create_genesis_transaction(transaction_data)

verify_transaction_hash(transaction) ==
    compute_hash(transaction) = transaction.currentHash

\* key=lambda x: x.get("timestamp", 0)
SortKey(transaction) ==
    IF transaction.timestamp = None THEN 0 ELSE transaction.timestamp

\* sorted(): stable; the positions of `transactions` in sorted order.
\* Insert position p into the sorted index list s, behind every element
\* whose key is not greater.
\* Variant: an unstable sort, entries of equal timestamp come out reversed
RECURSIVE InsertIdx_Unstable(_, _, _)
InsertIdx_Unstable(transactions, s, p) ==
    IF s = <<>> THEN <<p>>
    ELSE IF SortKey(transactions[s[Len(s)]]) < SortKey(transactions[p])
         THEN Append(s, p)
         ELSE Append(InsertIdx_Unstable(transactions, SubSeq(s, 1, Len(s) - 1), p),
                     s[Len(s)])

RECURSIVE InsertIdx(_, _, _)
InsertIdx(transactions, s, p) ==
    IF s = <<>> THEN <<p>>
    ELSE IF SortKey(transactions[s[Len(s)]]) <= SortKey(transactions[p])
         THEN Append(s, p)
         ELSE Append(InsertIdx(transactions, SubSeq(s, 1, Len(s) - 1), p), s[Len(s)])

RECURSIVE SortedIdx(_, _)
SortedIdx(transactions, n) ==
    IF n = 0 THEN <<>>
    ELSE InsertIdx(transactions, SortedIdx(transactions, n - 1), n)

\* Variant: the list is taken in the order it is passed
SortedByTimestamp_ListOrder(transactions) == transactions

SortedByTimestamp(transactions) ==
    LET s == SortedIdx(transactions, Len(transactions))
    IN  [i \in 1..Len(transactions) |-> transactions[s[i]]]

\* Variant: the link of a non-genesis entry is not checked
VerifyStep_NoLinkCheck(sorted_transactions, i) ==
    LET transaction == sorted_transactions[i + 1]
    IN  IF ~verify_transaction_hash(transaction)
        THEN <<[index |-> i, transaction_id |-> transaction.id,
                error |-> "Invalid hash computation",
                expected |-> compute_hash(transaction),
                actual |-> transaction.currentHash]>>
        ELSE IF i = 0 /\ transaction.previousHash # GENESIS_HASH
        THEN <<[index |-> i, transaction_id |-> transaction.id,
                error |-> "Invalid genesis previousHash",
                expected |-> GENESIS_HASH,
                actual |-> transaction.previousHash]>>
        ELSE <<>>

\* Variant: the previousHash of the first entry is not checked
VerifyStep_NoGenesisCheck(sorted_transactions, i) ==
    LET transaction == sorted_transactions[i + 1]
    IN  IF ~verify_transaction_hash(transaction)
        THEN <<[index |-> i, transaction_id |-> transaction.id,
                error |-> "Invalid hash computation",
                expected |-> compute_hash(transaction),
                actual |-> transaction.currentHash]>>
        ELSE IF i = 0
        THEN <<>>
        ELSE LET expected_prev_hash == sorted_transactions[i].currentHash
             IN  IF transaction.previousHash # expected_prev_hash
                 THEN <<[index |-> i, transaction_id |-> transaction.id,
                         error |-> "Broken chain link",
                         expected |-> expected_prev_hash,
                         actual |-> transaction.previousHash]>>
                 ELSE <<>>

\* Variant: the first entry is expected to carry an empty previousHash
VerifyStep_GenesisUnset(sorted_transactions, i) ==
    LET transaction == sorted_transactions[i + 1]
    IN  IF ~verify_transaction_hash(transaction)
        THEN <<[index |-> i, transaction_id |-> transaction.id,
                error |-> "Invalid hash computation",
                expected |-> compute_hash(transaction),
                actual |-> transaction.currentHash]>>
        ELSE IF i = 0
        THEN IF transaction.previousHash # ""
             THEN <<[index |-> i, transaction_id |-> transaction.id,
                     error |-> "Invalid genesis previousHash",
                     expected |-> "",
                     actual |-> transaction.previousHash]>>
             ELSE <<>>
        ELSE LET expected_prev_hash == sorted_transactions[i].currentHash
             IN  IF transaction.previousHash # expected_prev_hash
                 THEN <<[index |-> i, transaction_id |-> transaction.id,
                         error |-> "Broken chain link",
                         expected |-> expected_prev_hash,
                         actual |-> transaction.previousHash]>>
                 ELSE <<>>

\* The body of the for loop at index i (0-based): the error it appends,
\* or <<>> when entry i passes both checks.
VerifyStep(sorted_transactions, i) ==
    LET transaction == sorted_transactions[i + 1]
    IN  IF ~verify_transaction_hash(transaction)
        THEN <<[index |-> i, transaction_id |-> transaction.id,
                error |-> "Invalid hash computation",
                expected |-> compute_hash(transaction),
                actual |-> transaction.currentHash]>>
        ELSE IF i = 0
        THEN IF transaction.previousHash # GENESIS_HASH
             THEN <<[index |-> i, transaction_id |-> transaction.id,
                     error |-> "Invalid genesis previousHash",
                     expected |-> GENESIS_HASH,
                     actual |-> transaction.previousHash]>>
             ELSE <<>>
        ELSE LET expected_prev_hash == sorted_transactions[i].currentHash
             IN  IF transaction.previousHash # expected_prev_hash
                 THEN <<[index |-> i, transaction_id |-> transaction.id,
                         error |-> "Broken chain link",
                         expected |-> expected_prev_hash,
                         actual |-> transaction.previousHash]>>
                 ELSE <<>>

\* Variant: no break, the loop goes on after an error
RECURSIVE VerifyLoop_NoBreak(_, _, _)
VerifyLoop_NoBreak(sorted_transactions, i, verified_count) ==
    IF i >= Len(sorted_transactions)
    THEN [verified_count |-> verified_count, errors |-> <<>>]
    ELSE LET e == VerifyStep(sorted_transactions, i)
             rest == VerifyLoop_NoBreak(sorted_transactions, i + 1,
                        IF e # <<>> THEN verified_count ELSE verified_count + 1)
         IN  [verified_count |-> rest.verified_count, errors |-> e \o rest.errors]

\* Variant: an entry is counted before it is checked
RECURSIVE VerifyLoop_CountFirst(_, _, _)
VerifyLoop_CountFirst(sorted_transactions, i, verified_count) ==
    IF i >= Len(sorted_transactions)
    THEN [verified_count |-> verified_count, errors |-> <<>>]
    ELSE LET e == VerifyStep(sorted_transactions, i)
         IN  IF e # <<>>
             THEN [verified_count |-> verified_count + 1, errors |-> e]
             ELSE VerifyLoop_CountFirst(sorted_transactions, i + 1, verified_count + 1)

\* The for loop from index i on: break on the first error, count otherwise.
RECURSIVE VerifyLoop(_, _, _)
VerifyLoop(sorted_transactions, i, verified_count) ==
    IF i >= Len(sorted_transactions)
    THEN [verified_count |-> verified_count, errors |-> <<>>]
    ELSE LET e == VerifyStep(sorted_transactions, i)
         IN  IF e # <<>>
             THEN [verified_count |-> verified_count, errors |-> e]
             ELSE VerifyLoop(sorted_transactions, i + 1, verified_count + 1)

\* integrity_score is kept in hundredths of a percent (round(x, 2) * 100)
verify_chain_integrity(transactions) ==
    IF transactions = <<>>
    THEN [is_valid |-> TRUE, total_transactions |-> 0, verified_count |-> 0,
          integrity_score |-> 10000, errors |-> <<>>]
    ELSE LET sorted_transactions == SortedByTimestamp(transactions)
             r == VerifyLoop(sorted_transactions, 0, 0)
             n == Len(transactions)
         IN  [is_valid |-> r.verified_count = n,
              total_transactions |-> n,
              verified_count |-> r.verified_count,
              integrity_score |-> (r.verified_count * 20000 + n) \div (2 * n),
              errors |-> r.errors,
              failed_at_index |->
                  IF r.errors # <<>> THEN r.errors[1].index ELSE None,
              failed_transaction_id |->
                  IF r.errors # <<>> THEN r.errors[1].transaction_id ELSE "None"]

\* Variant: the list is sorted in place (transactions.sort)
ListAfterVerify_SortedInPlace(transactions) == SortedByTimestamp(transactions)

\* The list `transactions` itself after verify_chain_integrity(transactions)
\* has returned: sorted() builds a new list and leaves its argument as it
\* is, and the loop only reads the entries (.get, compute_hash)
ListAfterVerify(transactions) == transactions

\* Variant: currentHash is computed before previousHash is assigned
RECURSIVE RechainLoop_HashFirst(_, _)
RechainLoop_HashFirst(updated_transactions, i) ==
    IF i >= Len(updated_transactions) THEN updated_transactions
    ELSE LET t0 == updated_transactions[i + 1]
             t1 == [t0 EXCEPT !.currentHash = compute_hash(t0)]
             t2 == [t1 EXCEPT !.previousHash =
                      IF i = 0 THEN GENESIS_HASH
                      ELSE updated_transactions[i].currentHash]
         IN  RechainLoop_HashFirst(
                 [updated_transactions EXCEPT ![i + 1] = t2], i + 1)

\* Variant: an entry is linked to the previousHash of the entry before it
RECURSIVE RechainLoop_LinkPrevious(_, _)
RechainLoop_LinkPrevious(updated_transactions, i) ==
    IF i >= Len(updated_transactions) THEN updated_transactions
    ELSE LET t1 == [updated_transactions[i + 1] EXCEPT !.previousHash =
                      IF i = 0 THEN GENESIS_HASH
                      ELSE updated_transactions[i].previousHash]
             t2 == [t1 EXCEPT !.currentHash = compute_hash(t1)]
         IN  RechainLoop_LinkPrevious(
                 [updated_transactions EXCEPT ![i + 1] = t2], i + 1)

\* The for loop of rechain_transactions from index i (0-based) on; each
\* entry is updated in place, so index i reads the updated index i-1.
RECURSIVE RechainLoop(_, _)
RechainLoop(updated_transactions, i) ==
    IF i >= Len(updated_transactions) THEN updated_transactions
    ELSE LET t1 == [updated_transactions[i + 1] EXCEPT !.previousHash =
                      IF i = 0 THEN GENESIS_HASH
                      ELSE updated_transactions[i].currentHash]
             t2 == [t1 EXCEPT !.currentHash = compute_hash(t1)]
         IN  RechainLoop([updated_transactions EXCEPT ![i + 1] = t2], i + 1)

\* Variant: the loop starts at the first entry whatever from_index
rechain_transactions_FromStart(transactions, from_index) ==
    IF transactions = <<>> \/ from_index >= Len(transactions)
    THEN transactions
    ELSE RechainLoop(SortedByTimestamp(transactions), 0)

\* from_index >= 0 (a negative from_index would index from the end)
rechain_transactions(transactions, from_index) ==
    IF transactions = <<>> \/ from_index >= Len(transactions)
    THEN transactions
    ELSE RechainLoop(SortedByTimestamp(transactions), from_index)

\* The list `transactions` itself after rechain_transactions(transactions,
\* from_index) has returned. sorted() and .copy() build new lists of the
\* same dict objects, and the loop assigns into those dicts: the entry at
\* position p of the caller's list is the object at its sorted position in
\* the returned list.
PassedAfterRechain(transactions, from_index) ==
    IF transactions = <<>> \/ from_index >= Len(transactions)
    THEN transactions
    ELSE LET s == SortedIdx(transactions, Len(transactions))
             updated_transactions == rechain_transactions(transactions, from_index)
         IN  [p \in 1..Len(transactions) |->
                 updated_transactions[CHOOSE i \in 1..Len(transactions) : s[i] = p]]

\* Variant: an unpaired last hash goes up to the next level as it is
RECURSIVE NextLevel_PromoteUnpaired(_, _)
NextLevel_PromoteUnpaired(current_level, i) ==
    IF i >= Len(current_level) THEN <<>>
    ELSE IF i + 1 < Len(current_level)
    THEN <<Sha256(current_level[i + 1] \o current_level[i + 2])>>
            \o NextLevel_PromoteUnpaired(current_level, i + 2)
    ELSE <<current_level[i + 1]>>

\* The for loop of generate_merkle_tree from index i (0-based) on: the
\* hashes of the pairs of current_level, an unpaired last hash paired with
\* itself
RECURSIVE NextLevel(_, _)
NextLevel(current_level, i) ==
    IF i >= Len(current_level) THEN <<>>
    ELSE LET combined == IF i + 1 < Len(current_level)
                         THEN current_level[i + 1] \o current_level[i + 2]
                         ELSE current_level[i + 1] \o current_level[i + 1]
         IN  <<Sha256(combined)>> \o NextLevel(current_level, i + 2)

\* The while loop of generate_merkle_tree: the levels appended to tree
RECURSIVE BuildTree(_, _)
BuildTree(current_level, tree) ==
    IF Len(current_level) > 1
    THEN LET next_level == NextLevel(current_level, 0)
         IN  BuildTree(next_level, Append(tree, next_level))
    ELSE tree

\* Variant: an empty list is not told apart, the reduction runs on no leaves
generate_merkle_tree_NoEmptyCase(transactions) ==
    LET leaves == [i \in 1..Len(transactions) |-> transactions[i].currentHash]
        tree == BuildTree(leaves, <<leaves>>)
    IN  [root |-> IF tree[Len(tree)] # <<>> THEN tree[Len(tree)][1] ELSE "",
         tree |-> tree,
         transaction_count |-> Len(transactions)]

\* The leaves are the currentHash values in list order; current_level is
\* never empty after the loop, so root is its first element
generate_merkle_tree(transactions) ==
    IF transactions = <<>>
    THEN [root |-> Sha256("empty"), tree |-> <<<<Sha256("empty")>>>>,
          transaction_count |-> 0]
    ELSE LET leaves == [i \in 1..Len(transactions) |-> transactions[i].currentHash]
             tree == BuildTree(leaves, <<leaves>>)
         IN  [root |-> tree[Len(tree)][1], tree |-> tree,
              transaction_count |-> Len(transactions)]

\* Milliseconds from the start of a day to the start of the next
DayMs == 86400000

\* int(date.replace(hour=0, ...).timestamp() * 1000) and
\* int(date.replace(hour=23, minute=59, second=59, microsecond=999999)
\* .timestamp() * 1000); a date is given by the number of its day.
\* timestamp() reads a naive datetime in the local time zone of the host,
\* tz: the day at whose midnight that zone sets its clocks back an hour to
\* 23:00 (None for a zone that never does). 23:59:59.999999 of that day is
\* taken at its first passing, and the next day starts an hour after the
\* second.
StartOfDay(date, tz) ==
    date * DayMs + (IF tz # None /\ date > tz THEN DayMs \div 24 ELSE 0)
EndOfDay(date, tz) == StartOfDay(date, tz) + DayMs - 1

\* Variant: the end instant of the day is left out
DailyTransactions_EndExclusive(transactions, date, tz) ==
    LET InDay(tx) == /\ StartOfDay(date, tz) <= SortKey(tx)
                     /\ SortKey(tx) < EndOfDay(date, tz)
    IN  SelectSeq(transactions, InDay)

\* [tx for tx in transactions
\*     if start_timestamp <= tx.get("timestamp", 0) <= end_timestamp]
DailyTransactions(transactions, date, tz) ==
    LET InDay(tx) == /\ StartOfDay(date, tz) <= SortKey(tx)
                     /\ SortKey(tx) <= EndOfDay(date, tz)
    IN  SelectSeq(transactions, InDay)

get_daily_merkle_root(transactions, date, tz) ==
    generate_merkle_tree(DailyTransactions(transactions, date, tz)).root
\* Variant: an amount equal to the ceiling is taken as large
ScanEntry_CeilingIncluded(sorted_transactions, i, current_time) ==
    LET transaction == sorted_transactions[i + 1]
        tx_id == transaction.id
        timestamp == SortKey(transaction)
        amount == transaction.amount
    IN  (IF timestamp > current_time + 60000
         THEN <<[id |-> tx_id, pattern |->
                   "Future timestamp detected in transaction " \o tx_id]>>
         ELSE <<>>)
        \o
        (IF i > 0 /\ timestamp < SortKey(sorted_transactions[i]) - 300000
         THEN <<[id |-> tx_id, pattern |->
                   "Timestamp regression detected in transaction " \o tx_id]>>
         ELSE <<>>)
        \o
        (IF Above(amount, 10000000) \/ amount = Float(10000000, 0)
         THEN <<[id |-> tx_id, pattern |->
                   "Unusually large amount detected in transaction " \o tx_id]>>
         ELSE <<>>)
        \o
        (IF BelowZero(amount)
         THEN <<[id |-> tx_id, pattern |->
                   "Negative amount detected in transaction " \o tx_id]>>
         ELSE <<>>)

\* The checks of the for loop of detect_tampering_patterns on the entry at
\* index i (0-based) of the sorted list: the (tx_id, pattern) pairs appended
\* to suspicious_transactions and patterns, in the order of the code.
ScanEntry(sorted_transactions, i, current_time) ==
    LET transaction == sorted_transactions[i + 1]
        tx_id == transaction.id
        timestamp == SortKey(transaction)
        amount == transaction.amount
    IN  (IF timestamp > current_time + 60000
         THEN <<[id |-> tx_id, pattern |->
                   "Future timestamp detected in transaction " \o tx_id]>>
         ELSE <<>>)
        \o
        (IF i > 0 /\ timestamp < SortKey(sorted_transactions[i]) - 300000
         THEN <<[id |-> tx_id, pattern |->
                   "Timestamp regression detected in transaction " \o tx_id]>>
         ELSE <<>>)
        \o
        (IF Above(amount, 10000000)
         THEN <<[id |-> tx_id, pattern |->
                   "Unusually large amount detected in transaction " \o tx_id]>>
         ELSE <<>>)
        \o
        (IF BelowZero(amount)
         THEN <<[id |-> tx_id, pattern |->
                   "Negative amount detected in transaction " \o tx_id]>>
         ELSE <<>>)

RECURSIVE ScanLoop(_, _, _)
ScanLoop(sorted_transactions, i, current_time) ==
    IF i >= Len(sorted_transactions) THEN <<>>
    ELSE ScanEntry(sorted_transactions, i, current_time)
            \o ScanLoop(sorted_transactions, i + 1, current_time)

\* Variant: one pair for each entry whose id occurs more than once
RECURSIVE ScanDuplicateIds_EveryOccurrence(_, _)
ScanDuplicateIds_EveryOccurrence(transactions, p) ==
    IF p > Len(transactions) THEN <<>>
    ELSE LET tx_id == transactions[p].id
             count == Cardinality({q \in 1..Len(transactions) :
                                      transactions[q].id = tx_id})
         IN  (IF count > 1
              THEN <<[id |-> tx_id, pattern |->
                        "Duplicate transaction ID detected: " \o tx_id]>>
              ELSE <<>>)
             \o ScanDuplicateIds_EveryOccurrence(transactions, p + 1)

\* id_counts and the loop over its items: one pair for each id that occurs
\* more than once, in the order of first occurrence (dict order)
RECURSIVE ScanDuplicateIds(_, _)
ScanDuplicateIds(transactions, p) ==
    IF p > Len(transactions) THEN <<>>
    ELSE LET tx_id == transactions[p].id
             count == Cardinality({q \in 1..Len(transactions) :
                                      transactions[q].id = tx_id})
             first == \A q \in 1..(p - 1) : transactions[q].id # tx_id
         IN  (IF first /\ count > 1
              THEN <<[id |-> tx_id, pattern |->
                        "Duplicate transaction ID detected: " \o tx_id]>>
              ELSE <<>>)
             \o ScanDuplicateIds(transactions, p + 1)

\* current_time stands for int(datetime.now().timestamp() * 1000);
\* suspicious_transactions is list(set(...)), a set of ids
detect_tampering_patterns(transactions, current_time) ==
    IF transactions = <<>>
    THEN [suspicious_transactions |-> {}, patterns |-> <<>>, risk_score |-> 0]
    ELSE LET sorted_transactions == SortedByTimestamp(transactions)
             found == ScanLoop(sorted_transactions, 0, current_time)
                         \o ScanDuplicateIds(transactions, 1)
             suspicious_transactions == [k \in 1..Len(found) |-> found[k].id]
             patterns == [k \in 1..Len(found) |-> found[k].pattern]
             score == Len(suspicious_transactions) * 20
         IN  [suspicious_transactions |->
                  {suspicious_transactions[k] : k \in 1..Len(found)},
              patterns |-> patterns,
              risk_score |-> IF score < 100 THEN score ELSE 100,
              total_issues |-> Len(patterns)]

-----------------------------------------------------------------------------
(* The caller's list: tests/blockchain_test.py *)

Fields == {"id", "amount", "currency", "categoryId", "timestamp", "billDueAt",
           "previousHash", "currentHash", "nonce", "version"}

\* The n-th draft dict, as in setUp: the keys previousHash, currentHash and
\* nonce are missing until the entry is created ("" / None here).
Draft(n, ts) ==
    [id |-> "tx_" \o ToString(n),
     amount |-> IF n % 2 = 1 THEN Float(100, 500) ELSE Float(5000, 0),
     currency |-> "INR",
     categoryId |-> IF n % 2 = 1 THEN "cat_food" ELSE "cat_salary",
     timestamp |-> ts,
     billDueAt |-> IF n % 2 = 1 THEN None ELSE 1500,
     previousHash |-> "",
     currentHash |-> "",
     nonce |-> None,
     version |-> 1]

Timestamps(transactions) ==
    {transactions[i].timestamp : i \in 1..Len(transactions)}

\* The highest timestamp of a non-empty list
MaxTimestamp(transactions) ==
    CHOOSE t \in Timestamps(transactions) :
        \A u \in Timestamps(transactions) : u <= t

\* 0-based index in timestamp order of the entry at list position p
SortedIndexOf(transactions, p) ==
    (CHOOSE i \in 1..Len(transactions) :
        SortedIdx(transactions, Len(transactions))[i] = p) - 1

\* Values an edit may write into field f of the entry at position p
EditValues(transactions, p, f) ==
    (CASE f = "id" -> {"tx_x"}
       [] f = "amount" -> {Float(999, 990)}
       [] f = "currency" -> {"USD"}
       [] f = "categoryId" -> {"cat_other"}
       [] f = "timestamp" ->
            {t + d : t \in Timestamps(transactions), d \in {-1, 0, 1}}
       [] f = "billDueAt" -> {None, 0, 1500}
       [] f = "previousHash" ->
            {GENESIS_HASH, "fake_hash_123"}
               \cup {transactions[j].currentHash : j \in 1..Len(transactions)}
       [] f = "currentHash" ->
            {"fake_hash_123"}
               \cup {transactions[j].currentHash : j \in 1..Len(transactions)}
       [] f = "nonce" -> {1}
       [] f = "version" -> {2})
    \ {transactions[p][f]}

NoEdit == [field |-> "none", k |-> None, k_after |-> None, was_valid |-> FALSE,
           order_kept |-> FALSE, absent_to_zero |-> FALSE]
NoRepair == [op |-> "none", from_index |-> None]
NoReport == [is_valid |-> FALSE, total_transactions |-> None,
             verified_count |-> None, integrity_score |-> None, errors |-> <<>>]

\* transactions.append(create_new_transaction(draft, previous)): the new
\* entry is linked to the entry appended just before it
AppendEntry(ts) ==
    /\ phase = "build"
    /\ Len(chain) < MaxLen
    /\ LET previous == IF chain = <<>> THEN <<>> ELSE <<chain[Len(chain)]>>
           tx == create_new_transaction(Draft(Len(chain) + 1, ts), previous)
       IN  chain' = Append(chain, tx)
    /\ ordered' = (ordered /\ (chain = <<>> \/ ts > chain[Len(chain)].timestamp))
    /\ verified' = FALSE
    /\ report' = NoReport
    /\ UNCHANGED <<phase, edit, repair, passed>>

\* The first draft is stamped StartTime; a later one is stamped just after,
\* at, or just before the entry appended before it
AppendNext ==
    \E ts \in (IF chain = <<>> THEN {StartTime}
               ELSE {chain[Len(chain)].timestamp + d : d \in {-1, 0, 1}}) :
        AppendEntry(ts)

\* tx[f] = v on one entry of the list, nothing recomputed
EditField ==
    /\ phase = "build"
    /\ \E p \in 1..Len(chain) : \E f \in Fields : \E v \in EditValues(chain, p, f) :
        LET edited == [chain EXCEPT ![p][f] = v]
        IN  /\ chain' = edited
            /\ edit' = [field |-> f,
                        k |-> SortedIndexOf(chain, p),
                        k_after |-> SortedIndexOf(edited, p),
                        was_valid |-> verify_chain_integrity(chain).is_valid,
                        order_kept |-> SortedIdx(edited, Len(edited))
                                          = SortedIdx(chain, Len(chain)),
                        absent_to_zero |-> /\ f = "billDueAt"
                                           /\ {chain[p][f], v} = {None, 0}]
    /\ phase' = "edited"
    /\ verified' = FALSE
    /\ report' = NoReport
    /\ UNCHANGED <<repair, ordered, passed>>

\* tx["currentHash"] = compute_hash(tx) on the edited entry only
RehashEdited ==
    /\ phase = "edited"
    /\ \E p \in 1..Len(chain) :
        /\ SortedIndexOf(chain, p) = edit.k_after
        /\ chain' = [chain EXCEPT ![p].currentHash = compute_hash(chain[p])]
    /\ repair' = [op |-> "rehash", from_index |-> None]
    /\ phase' = "repaired"
    /\ verified' = FALSE
    /\ report' = NoReport
    /\ UNCHANGED <<edit, ordered, passed>>

\* rechained = rechain_transactions(transactions, from_index); the caller
\* goes on with the returned list and still holds the list it passed
Rechain ==
    /\ phase \in {"build", "edited"}
    /\ \E from_index \in 0..Len(chain) :
        /\ chain' = rechain_transactions(chain, from_index)
        /\ passed' = PassedAfterRechain(chain, from_index)
        /\ repair' = [op |-> "rechain", from_index |-> from_index]
    /\ phase' = "repaired"
    /\ verified' = FALSE
    /\ report' = NoReport
    /\ UNCHANGED <<edit, ordered>>

\* result = verify_transaction_chain(transactions)
Verify ==
    /\ ~verified
    /\ report' = verify_chain_integrity(chain)
    /\ chain' = ListAfterVerify(chain)
    /\ verified' = TRUE
    /\ UNCHANGED <<phase, edit, repair, ordered, passed>>

LibInit ==
    /\ chain = <<>>
    /\ phase = "build"
    /\ edit = NoEdit
    /\ repair = NoRepair
    /\ report = NoReport
    /\ verified = FALSE
    /\ ordered = TRUE
    /\ passed = <<>>


-----------------------------------------------------------------------------
(* Library functions called on a given list *)

NoResult == [op |-> "none"]

FnIdle ==
    /\ sample = <<>>
    /\ result = NoResult

\* Timestamps just before, at the start of, at the end of and just after
\* day 1
SampleTimes == {DayMs - 1, DayMs, 2 * DayMs - 1, 2 * DayMs}

\* Days a root is asked for; no sample entry lies in day 3
Days == 0..3

\* Local time zones of the host: one that never sets its clocks back at
\* midnight, and one that does so at the end of day 1
Zones == {None, 1}

\* Values of int(datetime.now().timestamp() * 1000)
Nows == {DayMs, 2 * DayMs}

\* A stored entry as the tests make one: a copy of sample_tx1 (n = 1) or
\* sample_tx2 (n = 2) with its timestamp and amount set, then
\* create_new_transaction
LedgerEntry(n, amount, ts) ==
    create_new_transaction([Draft(n, ts) EXCEPT !.amount = amount], <<>>)

\* tx_1 with amount 100.5, tx_2 with amount -100.0, at each sample time
LedgerEntries ==
    {LedgerEntry(1, Float(100, 500), ts) : ts \in SampleTimes}
        \cup {LedgerEntry(2, Minus(Float(100, 0)), ts) : ts \in SampleTimes}

\* A dict handed to compute_hash: id and categoryId are strings the library
\* takes as they come, billDueAt is absent, 0 or a due date, and version and
\* currentHash are those of a fresh or of an edited entry
RawEntry(id, categoryId, billDueAt, version, currentHash) ==
    [id |-> id, amount |-> Float(100, 500), currency |-> "INR",
     categoryId |-> categoryId, timestamp |-> DayMs, billDueAt |-> billDueAt,
     previousHash |-> GENESIS_HASH, currentHash |-> currentHash,
     nonce |-> 0, version |-> version]

RawEntries ==
    {RawEntry(id, c, b, x[1], x[2]) :
        id \in {"tx_1", "tx_1|100.5|INR|cat_food"},
        c \in {"cat_food", "cat_food|100.5|INR|cat_food"},
        b \in {None, 0, 1500},
        x \in {<<1, "">>, <<2, "fake_hash_123">>}}

\* The lists of at most n entries of S
RECURSIVE ListsUpTo(_, _)
ListsUpTo(S, n) ==
    IF n = 0 THEN {<<>>}
    ELSE LET shorter == ListsUpTo(S, n - 1)
         IN  shorter \cup {Append(l, e) : l \in {m \in shorter : Len(m) = n - 1},
                                          e \in S}

\* Entries at and just past the limits of detect_tampering_patterns when
\* current_time is DayMs: stamped a minute or a minute and a millisecond
\* ahead, with amount 0.0, -0.01, 10000000.0, 10000000.01 or 15000000.0
LimitEntries ==
    {LedgerEntry(n, amount, ts) :
        n \in {1, 2},
        amount \in {Float(0, 0), Minus(Float(0, 10)), Float(10000000, 0),
                    Float(10000000, 10), Float(15000000, 0)},
        ts \in {DayMs + 60000, DayMs + 60001}}

\* The lists the functions are called on: any list of stored entries, two
\* raw dicts, or one or two entries at the limits
Samples ==
    ListsUpTo(LedgerEntries, MaxSample)
        \cup {<<a, b>> : a \in RawEntries, b \in RawEntries}
        \cup ListsUpTo(LimitEntries, 2)

\* for tx in sample: compute_hash(tx), with the hash_input of each call
ComputeHash ==
    /\ result = NoResult
    /\ result' = [op |-> "compute_hash",
                  hash_input |-> [i \in 1..Len(sample) |-> HashInput(sample[i])],
                  hash |-> [i \in 1..Len(sample) |-> compute_hash(sample[i])]]
    /\ UNCHANGED sample

\* merkle_data = generate_merkle_tree(sample)
GenerateMerkleTree ==
    /\ result = NoResult
    /\ LET merkle_data == generate_merkle_tree(sample)
       IN  result' = [op |-> "generate_merkle_tree",
                      root |-> merkle_data.root,
                      tree |-> merkle_data.tree,
                      transaction_count |-> merkle_data.transaction_count]
    /\ UNCHANGED sample

\* root = get_daily_merkle_root(sample, date) on a host of local time zone
\* tz, with the merkle_data it is taken from
GetDailyMerkleRoot ==
    /\ result = NoResult
    /\ \E date \in Days : \E tz \in Zones :
        result' = [op |-> "get_daily_merkle_root",
                   date |-> date,
                   tz |-> tz,
                   merkle_data |->
                       generate_merkle_tree(DailyTransactions(sample, date, tz)),
                   root |-> get_daily_merkle_root(sample, date, tz)]
    /\ UNCHANGED sample

\* analysis = detect_tampering_patterns(sample) at time current_time
DetectTamperingPatterns ==
    /\ result = NoResult
    /\ \E current_time \in Nows :
        result' = [op |-> "detect_tampering_patterns",
                   current_time |-> current_time,
                   analysis |-> detect_tampering_patterns(sample, current_time)]
    /\ UNCHANGED sample

-----------------------------------------------------------------------------
(* backend/server.py: POST /api/transactions *)

Requests == {"r1", "r2"}
Users == {"user_a", "user_b"}
\* Idempotency-Key header; "" is a request without the header
Keys == {"", "idem-key-0000001"}
\* amount of the payload: 50.0 and 250.756
Amounts == {Float(50, 0), Float(250, 756)}

\* user_id of a document that has no such key
NoUser == ""

\* transaction_data.dict() of a TransactionCreate (the fields that matter here)
Payload(a) ==
    [amount |-> a, currency |-> "INR", categoryId |-> "cat_food", billDueAt |-> None]

\* hashlib.sha256(str(request_data).encode()).hexdigest()
RequestHash(request_data) ==
    Sha256("{'amount': " \o StrFloat(request_data.amount) \o
           ", 'currency': '" \o request_data.currency \o
           "', 'categoryId': '" \o request_data.categoryId \o
           "', 'billDueAt': " \o
           (IF request_data.billDueAt = None THEN "None"
            ELSE StrInt(request_data.billDueAt)) \o "}")

\* Transaction(**d).dict(): the model has no user_id field (extra keys are
\* ignored), rounds the amount, and fills in missing keys from its defaults,
\* the timestamp from the clock
TransactionDict(d, now) ==
    [id |-> d.id,
     amount |-> Round2(d.amount),
     currency |-> d.currency,
     categoryId |-> d.categoryId,
     timestamp |-> IF d.timestamp = None THEN now ELSE d.timestamp,
     billDueAt |-> d.billDueAt,
     previousHash |-> d.previousHash,
     currentHash |-> d.currentHash,
     version |-> IF d.version = None THEN 1 ELSE d.version,
     nonce |-> IF d.nonce = None THEN 0 ELSE d.nonce,
     user_id |-> NoUser]

\* tx_dict = transaction_data.dict(); tx_dict["id"] = str(uuid.uuid4());
\* tx_dict["user_id"] = current_user["id"]
TxDict(r, user, request_data) ==
    [id |-> "uuid-" \o r,
     amount |-> request_data.amount,
     currency |-> request_data.currency,
     categoryId |-> request_data.categoryId,
     timestamp |-> None,
     billDueAt |-> request_data.billDueAt,
     previousHash |-> "",
     currentHash |-> "",
     version |-> None,
     nonce |-> None,
     user_id |-> user]

\* Positions of the documents matching {"user_id": user}
MatchUser(user) == {i \in 1..Len(db) : db[i].user_id = user}

\* Positions of the documents stored by requests of `user`
StoredBy(user) == {i \in 1..Len(db) : db_owner[i] = user}

\* Of the positions S, those with the highest timestamp
Latest(S) == {i \in S : \A j \in S : db[j].timestamp <= db[i].timestamp}

\* db.transactions.find_one({"user_id": user}, sort=[("timestamp", -1)]):
\* the possible results, <<>> for None
FindOneLast(user) ==
    IF MatchUser(user) = {} THEN {<<>>}
    ELSE {<<db[i]>> : i \in Latest(MatchUser(user))}

\* The documents stored by requests of `user`, in insertion order
RECURSIVE LedgerUpTo(_, _)
LedgerUpTo(user, n) ==
    IF n = 0 THEN <<>>
    ELSE IF db_owner[n] = user
         THEN Append(LedgerUpTo(user, n - 1), db[n])
         ELSE LedgerUpTo(user, n - 1)

Ledger(user) == LedgerUpTo(user, Len(db))

\* timedelta(hours=24) in milliseconds: the life of an idempotency record
IdempotencyTtl == 86400000

\* Variant: the query names a field the records do not carry, none matches
FindIdempotent_NoMatch(key) == <<>>

\* db.idempotent_requests.find_one({"idempotency_key": key})
FindIdempotent(key) ==
    IF \E i \in 1..Len(idem) : idem[i].idempotency_key = key
    THEN <<idem[CHOOSE i \in 1..Len(idem) : idem[i].idempotency_key = key]>>
    ELSE <<>>

\* if idempotency_key: existing_response = await check_idempotency(...);
\* if existing_response: return Transaction(**existing_response)
CheckIdempotency(r) ==
    /\ req[r].pc = "start"
    /\ LET existing == IF req[r].key # "" THEN FindIdempotent(req[r].key) ELSE <<>>
       IN  IF existing = <<>>
           THEN req' = [req EXCEPT ![r].pc = "find"]
           ELSE IF existing[1].request_hash = RequestHash(req[r].payload)
                THEN req' = [req EXCEPT ![r].pc = "done",
                                        ![r].response =
                                            <<TransactionDict(
                                                existing[1].response_data, clock)>>]
                ELSE req' = [req EXCEPT ![r].pc = "conflict"]
    /\ UNCHANGED <<db, db_owner, db_prior, idem, clock>>

\* last_tx = await db.transactions.find_one(...)
FindLast(r) ==
    /\ req[r].pc = "find"
    /\ \E last_tx \in FindOneLast(req[r].user) :
        req' = [req EXCEPT ![r].pc = "build",
                           ![r].last_tx = last_tx,
                           ![r].prior = {db[i].currentHash :
                                            i \in Latest(StoredBy(req[r].user))}]
    /\ UNCHANGED <<db, db_owner, db_prior, idem, clock>>

\* tx_dict ... transaction = Transaction(**blockchain_tx), up to the await
\* of insert_one
BuildTransaction(r) ==
    /\ req[r].pc = "build"
    /\ LET tx_dict == TxDict(r, req[r].user, req[r].payload)
           blockchain_tx ==
               IF req[r].last_tx # <<>>
               THEN create_new_transaction(
                        tx_dict, <<TransactionDict(req[r].last_tx[1], clock)>>)
               ELSE create_new_transaction(tx_dict, <<>>)
       IN  req' = [req EXCEPT ![r].pc = "insert",
                              ![r].tx = <<TransactionDict(blockchain_tx, clock)>>]
    /\ UNCHANGED <<db, db_owner, db_prior, idem, clock>>

\* await db.transactions.insert_one(transaction.dict())
InsertTransaction(r) ==
    /\ req[r].pc = "insert"
    /\ db' = Append(db, req[r].tx[1])
    /\ db_owner' = Append(db_owner, req[r].user)
    /\ db_prior' = Append(db_prior, req[r].prior)
    /\ req' = [req EXCEPT ![r].pc = IF req[r].key # "" THEN "store" ELSE "done",
                          ![r].response = req[r].tx]
    /\ UNCHANGED <<idem, clock>>

\* await store_idempotent_response(...): the collection has a unique index
\* on idempotency_key, a second insert of a key raises
StoreIdempotentResponse(r) ==
    /\ req[r].pc = "store"
    /\ IF FindIdempotent(req[r].key) # <<>>
       THEN /\ req' = [req EXCEPT ![r].pc = "error", ![r].response = <<>>]
            /\ idem' = idem
       ELSE /\ idem' = Append(idem, [idempotency_key |-> req[r].key,
                                     request_hash |-> RequestHash(req[r].payload),
                                     request_data |-> req[r].payload,
                                     response_data |-> req[r].tx[1],
                                     created_at |-> clock,
                                     expires_at |-> clock + IdempotencyTtl])
            /\ req' = [req EXCEPT ![r].pc = "done", ![r].stored_at = clock]
    /\ UNCHANGED <<db, db_owner, db_prior, clock>>

\* More than the life of an idempotency record goes by with no request
\* being handled
DayPasses ==
    /\ clock <= StartTime + MaxClock
    /\ \A r \in Requests : req[r].pc \in {"start", "done", "conflict", "error"}
    /\ clock' = clock + IdempotencyTtl + 1
    /\ UNCHANGED <<db, db_owner, db_prior, idem, req>>

\* The TTL index on expires_at (expireAfterSeconds=0): the database removes
\* the records whose expires_at has passed
ExpireIdempotentRequests ==
    /\ \E i \in 1..Len(idem) : idem[i].expires_at < clock
    /\ idem' = SelectSeq(idem, LAMBDA d : ~(d.expires_at < clock))
    /\ UNCHANGED <<db, db_owner, db_prior, clock, req>>

\* datetime.utcnow() advances
Tick ==
    /\ clock < StartTime + MaxClock
    /\ clock' = clock + 1
    /\ UNCHANGED <<db, db_owner, db_prior, idem, req>>

NewRequest(user, key, amount) ==
    [pc |-> "start", user |-> user, key |-> key, payload |-> Payload(amount),
     last_tx |-> <<>>, prior |-> {}, tx |-> <<>>, response |-> <<>>,
     stored_at |-> None]

ServerIdle ==
    /\ db = <<>>
    /\ db_owner = <<>>
    /\ db_prior = <<>>
    /\ idem = <<>>
    /\ clock = StartTime

ServerInit ==
    /\ ServerIdle
    /\ FnIdle
    /\ req \in [Requests -> {NewRequest(u, k, a) :
                                u \in Users, k \in Keys, a \in Amounts}]
    /\ chain = <<>>
    /\ phase = "build"
    /\ edit = NoEdit
    /\ repair = NoRepair
    /\ report = NoReport
    /\ verified = FALSE
    /\ ordered = TRUE
    /\ passed = <<>>

ServerNext ==
    \/ \E r \in Requests : CheckIdempotency(r) /\ UNCHANGED <<libVars, fnVars>>
    \/ \E r \in Requests : FindLast(r) /\ UNCHANGED <<libVars, fnVars>>
    \/ \E r \in Requests : BuildTransaction(r) /\ UNCHANGED <<libVars, fnVars>>
    \/ \E r \in Requests : InsertTransaction(r) /\ UNCHANGED <<libVars, fnVars>>
    \/ \E r \in Requests : StoreIdempotentResponse(r) /\ UNCHANGED <<libVars, fnVars>>
    \/ Tick /\ UNCHANGED <<libVars, fnVars>>
    \/ DayPasses /\ UNCHANGED <<libVars, fnVars>>
    \/ ExpireIdempotentRequests /\ UNCHANGED <<libVars, fnVars>>

SpecServer == ServerInit /\ [][ServerNext]_vars

-----------------------------------------------------------------------------
(* The library scenario *)

Init ==
    /\ LibInit
    /\ ServerIdle
    /\ FnIdle
    /\ req = [r \in Requests |-> NewRequest("user_a", "", Float(50, 0))]

Next ==
    \/ AppendNext /\ UNCHANGED <<srvVars, fnVars>>
    \/ EditField /\ UNCHANGED <<srvVars, fnVars>>
    \/ RehashEdited /\ UNCHANGED <<srvVars, fnVars>>
    \/ Rechain /\ UNCHANGED <<srvVars, fnVars>>
    \/ Verify /\ UNCHANGED <<srvVars, fnVars>>

Spec == Init /\ [][Next]_vars

-----------------------------------------------------------------------------
(* The library functions on given lists *)

FnInit ==
    /\ sample \in Samples
    /\ result = NoResult
    /\ LibInit
    /\ ServerIdle
    /\ req = [r \in Requests |-> NewRequest("user_a", "", Float(50, 0))]

FnNext ==
    \/ ComputeHash /\ UNCHANGED <<libVars, srvVars>>
    \/ GenerateMerkleTree /\ UNCHANGED <<libVars, srvVars>>
    \/ GetDailyMerkleRoot /\ UNCHANGED <<libVars, srvVars>>
    \/ DetectTamperingPatterns /\ UNCHANGED <<libVars, srvVars>>

SpecFn == FnInit /\ [][FnNext]_vars


-----------------------------------------------------------------------------
(* Properties *)

HashedFields == {"id", "amount", "currency", "categoryId", "timestamp",
                 "billDueAt", "previousHash", "nonce"}

\* The positions of `transactions` in timestamp-ascending order, entries of
\* equal timestamp in list order, stated without the sorting algorithm
AscendingOrder(transactions) ==
    LET n == Len(transactions)
    IN  CHOOSE s \in [1..n -> 1..n] :
            /\ \A i, j \in 1..n : i # j => s[i] # s[j]
            /\ \A i, j \in 1..n : i < j =>
                \/ SortKey(transactions[s[i]]) < SortKey(transactions[s[j]])
                \/ /\ SortKey(transactions[s[i]]) = SortKey(transactions[s[j]])
                   /\ s[i] < s[j]

\* I1-I3 over the list taken in timestamp-ascending order
ChainConsistent(transactions) ==
    LET s == AscendingOrder(transactions)
    IN  \A i \in 1..Len(transactions) :
            LET t == transactions[s[i]]
            IN  /\ t.currentHash = compute_hash(t)
                /\ i = 1 => t.previousHash = GENESIS_HASH
                /\ i > 1 => t.previousHash = transactions[s[i - 1]].currentHash

\* C1: a list built only by appending drafts in increasing timestamp
\* order, each linked to the entry appended before it, verifies valid with
\* verified_count equal to its length (N >= 0).
C1_AppendedChainVerifies ==
    (verified /\ phase = "build" /\ ordered) =>
        (report.is_valid /\ report.verified_count = Len(chain))

C1_Witness ==
    /\ verified /\ phase = "build" /\ ordered
    /\ Len(chain) >= 3
    /\ report.is_valid

\* C2 (as claimed): after an edit of any single field of the entry at
\* sorted index k of a valid chain, verification reports invalid with
\* failed_at_index = k.
C2_AnyEditDetectedAtK ==
    (verified /\ phase = "edited" /\ edit.was_valid) =>
        (~report.is_valid /\ report.failed_at_index = edit.k)

\* C2 (amended): the same for an edit of one of the eight hashed fields or
\* of currentHash that leaves the timestamp order of the entries as it was
\* and is not a switch of billDueAt between absent and 0.
C2_HashedEditDetectedAtK ==
    (/\ verified /\ phase = "edited" /\ edit.was_valid
     /\ edit.field \in HashedFields \cup {"currentHash"}
     /\ edit.order_kept
     /\ ~edit.absent_to_zero) =>
        (~report.is_valid /\ report.failed_at_index = edit.k)

C2_Witness ==
    /\ verified /\ phase = "edited" /\ edit.was_valid
    /\ edit.field = "timestamp" /\ edit.order_kept
    /\ edit.k = 1 /\ Len(chain) >= 3
    /\ ~report.is_valid /\ report.failed_at_index = 1

\* C3: replacing only previousHash of the entry at sorted index k > 0 of a
\* valid chain and recomputing that entry's currentHash makes verification
\* fail at index k with "Broken chain link".
C3_RelinkedEntryBreaksLink ==
    (/\ verified /\ phase = "repaired" /\ repair.op = "rehash"
     /\ edit.was_valid /\ edit.field = "previousHash" /\ edit.k > 0) =>
        (/\ ~report.is_valid
         /\ report.failed_at_index = edit.k
         /\ report.errors[1].error = "Broken chain link")

C3_Witness ==
    /\ verified /\ phase = "repaired" /\ repair.op = "rehash"
    /\ edit.was_valid /\ edit.field = "previousHash" /\ edit.k = 1
    /\ Len(chain) >= 3
    /\ report.errors # <<>> /\ report.errors[1].error = "Broken chain link"

\* C4 (as claimed): after a single-field edit of the entry at sorted index
\* k of a valid chain, rechaining from the index of that entry makes the
\* returned list verify valid.
C4_RechainRestoresValidity ==
    (/\ verified /\ phase = "repaired" /\ repair.op = "rechain"
     /\ edit.field # "none" /\ edit.was_valid
     /\ repair.from_index = edit.k) =>
        report.is_valid

\* C5 (as claimed): once every request has completed, the transactions
\* stored for each user verify valid.
C5_StoredLedgersVerify ==
    (\A r \in Requests : req[r].pc \in {"done", "conflict", "error"}) =>
        \A u \in Users : verify_chain_integrity(Ledger(u)).is_valid

\* C6 (as claimed): every stored transaction's currentHash is the hash of
\* the transaction as stored.
C6_StoredHashCorrect ==
    \A i \in 1..Len(db) : db[i].currentHash = compute_hash(db[i])

\* C7 (as claimed): a transaction stored for a user who had stored
\* transactions when the handler looked up the last one links to the
\* latest of them; only a transaction stored for a user who had none has
\* previousHash = GENESIS_HASH.
C7_LinksToLatestStored ==
    \A i \in 1..Len(db) :
        IF db_prior[i] = {}
        THEN db[i].previousHash = GENESIS_HASH
        ELSE db[i].previousHash \in db_prior[i]

\* C8: the entry returned by create_new_transaction has previousHash =
\* GENESIS_HASH when no previous entry is given and the previous entry's
\* currentHash otherwise, nonce 0, and currentHash = compute_hash of it.
C8_CreatedEntryLinked ==
    phase = "build" =>
        \A i \in 1..Len(chain) :
            /\ chain[i].previousHash =
                  (IF i = 1 THEN GENESIS_HASH ELSE chain[i - 1].currentHash)
            /\ chain[i].nonce = 0
            /\ chain[i].currentHash = compute_hash(chain[i])

C8_Witness ==
    /\ phase = "build" /\ ~verified /\ Len(chain) >= 2
    /\ chain[1].previousHash = GENESIS_HASH
    /\ chain[2].previousHash = chain[1].currentHash

\* C9: verification reports valid exactly when, in timestamp-ascending
\* order, every entry's currentHash is its computed hash, the first
\* previousHash is GENESIS_HASH and every later previousHash is the
\* currentHash of the entry before it.
C9_ValidIffConsistent ==
    verified => (report.is_valid <=> ChainConsistent(chain))

C9_Witness ==
    /\ verified /\ phase = "repaired" /\ repair.op = "rechain"
    /\ ~ordered /\ Len(chain) >= 3
    /\ report.is_valid /\ ChainConsistent(chain)

\* C10 (as claimed): no step appends to a non-empty ledger an entry whose
\* timestamp is earlier than the highest timestamp already in it.
C10_SkewedAppendRejected ==
    [][(chain # <<>> /\ Len(chain') = Len(chain) + 1)
          => chain'[Len(chain')].timestamp >= MaxTimestamp(chain)]_vars

\* A step that is a call of rechain_transactions on the caller's list
RechainStep ==
    phase # "repaired" /\ phase' = "repaired" /\ repair'.op = "rechain"

\* C11: rechain_transactions called with any from_index on a list that
\* verifies valid returns every entry of the list with the previousHash and
\* currentHash it had, and rechaining the returned list again from the same
\* index gives the returned list.
C11_RechainIdempotent ==
    [][(RechainStep /\ verify_chain_integrity(chain).is_valid) =>
        /\ Len(chain') = Len(chain)
        /\ \A j \in 1..Len(chain) : \E i \in 1..Len(chain') :
              chain'[i].id = chain[j].id
        /\ \A i \in 1..Len(chain') : \A j \in 1..Len(chain) :
              chain'[i].id = chain[j].id =>
                  /\ chain'[i].previousHash = chain[j].previousHash
                  /\ chain'[i].currentHash = chain[j].currentHash
        /\ rechain_transactions(chain', repair'.from_index) = chain']_vars

C11_Witness ==
    /\ phase = "repaired" /\ repair.op = "rechain" /\ repair.from_index = 1
    /\ edit.field = "none" /\ ordered /\ Len(chain) >= 3
    /\ verified /\ report.is_valid

\* C12 (as claimed): after a call of rechain_transactions every entry of
\* the list the caller passed in has the previousHash and currentHash it
\* had before the call.
C12_PassedListUntouched ==
    [][RechainStep =>
        /\ Len(passed') = Len(chain)
        /\ \A p \in 1..Len(chain) :
              /\ passed'[p].previousHash = chain[p].previousHash
              /\ passed'[p].currentHash = chain[p].currentHash]_vars

\* C13 (as claimed): after an edit of a field other than the hashes and
\* the version itself, rechaining from an index at or before the edited
\* entry leaves that entry with its version bumped by 1 (from 1 to 2).
C13_EditedEntryVersionBumped ==
    (/\ phase = "repaired" /\ repair.op = "rechain"
     /\ edit.field \notin {"none", "previousHash", "currentHash", "version"}
     /\ repair.from_index <= edit.k_after) =>
        chain[edit.k_after + 1].version = 2

\* Two entries that agree on the eight hashed fields
SameHashedFields(a, b) == \A f \in HashedFields : a[f] = b[f]

\* C14: the hash of an entry depends only on id, amount, currency,
\* categoryId, timestamp, billDueAt, previousHash and nonce: two entries of
\* a list that agree on these eight fields get the same hash, whatever
\* their currentHash and version.
C14_HashOfEightFieldsOnly ==
    result.op = "compute_hash" =>
        \A i, j \in 1..Len(sample) :
            SameHashedFields(sample[i], sample[j]) =>
                result.hash[i] = result.hash[j]

C14_Witness ==
    /\ result.op = "compute_hash" /\ Len(sample) = 2
    /\ SameHashedFields(sample[1], sample[2])
    /\ sample[1].version # sample[2].version
    /\ sample[1].currentHash # sample[2].currentHash
    /\ result.hash[1] = result.hash[2]

\* C15 (as claimed): two entries that differ in the value of at least one
\* of the eight hashed fields never get the same "|"-joined hash input.
C15_EncodingUnambiguous ==
    result.op = "compute_hash" =>
        \A i, j \in 1..Len(sample) :
            ~SameHashedFields(sample[i], sample[j]) =>
                result.hash_input[i] # result.hash_input[j]

\* C16 (as claimed): an entry with a present billDueAt, 0 included, never
\* hashes the same as the otherwise identical entry with billDueAt absent.
C16_AbsentDueDateDistinct ==
    result.op = "compute_hash" =>
        \A i, j \in 1..Len(sample) :
            (/\ sample[i].billDueAt = None
             /\ sample[j].billDueAt # None
             /\ \A f \in HashedFields \ {"billDueAt"} :
                   sample[i][f] = sample[j][f]) =>
                result.hash[i] # result.hash[j]

\* The rearrangements of the positions 1..n
Rearrangements(n) ==
    {f \in [1..n -> 1..n] : \A i, j \in 1..n : i # j => f[i] # f[j]}

\* C17 (as claimed): the daily root of a list is the daily root of the same
\* entries passed in any other list order.
C17_RootIndependentOfListOrder ==
    result.op = "get_daily_merkle_root" =>
        \A f \in Rearrangements(Len(sample)) :
            get_daily_merkle_root([i \in 1..Len(sample) |-> sample[f[i]]],
                                  result.date, result.tz) = result.root

\* The list without its entry at position p
RemoveAt(transactions, p) ==
    SubSeq(transactions, 1, p - 1) \o SubSeq(transactions, p + 1, Len(transactions))

\* The timestamp of an entry lies in the day, both end instants included
InDay(transaction, date, tz) ==
    SortKey(transaction) \in StartOfDay(date, tz)..EndOfDay(date, tz)

\* C18: the daily root does not change when an entry with a timestamp
\* outside the requested day is removed from or added to the list, and it
\* is the root of the entries with a timestamp from the start instant to
\* the end instant of the day, both included.
C18_OtherDaysIgnored ==
    result.op = "get_daily_merkle_root" =>
        /\ \A p \in 1..Len(sample) :
              ~InDay(sample[p], result.date, result.tz) =>
                  get_daily_merkle_root(RemoveAt(sample, p), result.date,
                                        result.tz)
                      = result.root
        /\ \A e \in LedgerEntries :
              ~InDay(e, result.date, result.tz) =>
                  get_daily_merkle_root(Append(sample, e), result.date,
                                        result.tz)
                      = result.root
        /\ LET InThisDay(tx) == InDay(tx, result.date, result.tz)
           IN  result.root = generate_merkle_tree(SelectSeq(sample, InThisDay)).root
        /\ (\E p \in 1..Len(sample) :
               SortKey(sample[p]) \in {StartOfDay(result.date, result.tz),
                                       EndOfDay(result.date, result.tz)})
              => result.root # Sha256("empty")

C18_Witness ==
    /\ result.op = "get_daily_merkle_root" /\ result.date = 1
    /\ result.tz = None
    /\ Len(sample) = 3
    /\ sample[1].timestamp = EndOfDay(1, None)
    /\ sample[2].timestamp = StartOfDay(2, None)
    /\ sample[3].timestamp = StartOfDay(1, None)
    /\ result.root = generate_merkle_tree(<<sample[1], sample[3]>>).root

\* C19: for an empty list, and for a list with no timestamp inside the
\* requested day, the root is the hash of the marker "empty" and the
\* transaction_count is 0.
C19_EmptyDaySentinel ==
    /\ (result.op = "generate_merkle_tree" /\ sample = <<>>) =>
          (result.root = Sha256("empty") /\ result.transaction_count = 0)
    /\ (/\ result.op = "get_daily_merkle_root"
        /\ \A p \in 1..Len(sample) :
              ~InDay(sample[p], result.date, result.tz)) =>
          /\ result.root = Sha256("empty")
          /\ result.merkle_data.transaction_count = 0

C19_Witness ==
    /\ result.op = "get_daily_merkle_root" /\ result.date = 3
    /\ Len(sample) >= 2
    /\ result.root = Sha256("empty")

\* The positions of the entries of a list that a heuristic flags: a
\* timestamp more than a minute ahead of current_time, an amount above the
\* ceiling or below zero, or an id that another entry has
FlaggedEntries(transactions, current_time) ==
    {p \in 1..Len(transactions) :
        \/ SortKey(transactions[p]) > current_time + 60000
        \/ BelowZero(transactions[p].amount)
        \/ Above(transactions[p].amount, 10000000)
        \/ \E q \in 1..Len(transactions) :
              q # p /\ transactions[q].id = transactions[p].id}

\* C20 (as claimed): the risk score is 20 points for each distinct flagged
\* entry, capped at 100 (distinct taken either as distinct ids or as
\* distinct entries).
C20_ScoreCountsDistinctEntries ==
    result.op = "detect_tampering_patterns" =>
        LET ids == Cardinality(result.analysis.suspicious_transactions)
            entries == Cardinality(FlaggedEntries(sample, result.current_time))
            Capped(n) == IF n * 20 < 100 THEN n * 20 ELSE 100
        IN  result.analysis.risk_score \in {Capped(ids), Capped(entries)}

\* The ids of the entries of a list
IdsOf(transactions) == {transactions[p].id : p \in 1..Len(transactions)}

\* How many entries of a sequence equal x
Occurrences(seq, x) == Cardinality({k \in 1..Len(seq) : seq[k] = x})

\* C21: for every id of the input, the analysis holds exactly one
\* "Duplicate transaction ID" pattern for it, and lists it as suspicious,
\* if the id occurs more than once in the input, and holds no such pattern
\* if it occurs once.
C21_DuplicateIdReportedOnce ==
    result.op = "detect_tampering_patterns" =>
        \A id \in IdsOf(sample) :
            LET n == Occurrences(result.analysis.patterns,
                        "Duplicate transaction ID detected: " \o id)
                duplicated == Cardinality({p \in 1..Len(sample) :
                                              sample[p].id = id}) > 1
            IN  /\ duplicated =>
                      (n = 1 /\ id \in result.analysis.suspicious_transactions)
                /\ ~duplicated => n = 0

C21_Witness ==
    /\ result.op = "detect_tampering_patterns" /\ Len(sample) = 3
    /\ sample[1].id = "tx_1" /\ sample[2].id = "tx_2" /\ sample[3].id = "tx_1"
    /\ Occurrences(result.analysis.patterns,
                   "Duplicate transaction ID detected: tx_1") = 1
    /\ Occurrences(result.analysis.patterns,
                   "Duplicate transaction ID detected: tx_2") = 0

\* A step that is a call of verify_chain_integrity on the caller's list
VerifyCall == ~verified /\ verified'

\* C22: verification of the empty list reports is_valid with
\* total_transactions 0, verified_count 0 and no errors; verification of a
\* single entry created as genesis reports is_valid with verified_count 1.
C22_EmptyAndSingleVerify ==
    /\ (verified /\ chain = <<>>) =>
          /\ report.is_valid
          /\ report.total_transactions = 0
          /\ report.verified_count = 0
          /\ report.errors = <<>>
    /\ (verified /\ phase = "build" /\ Len(chain) = 1) =>
          (report.is_valid /\ report.verified_count = 1)

C22_Witness ==
    /\ verified /\ phase = "build" /\ Len(chain) = 1
    /\ chain[1].previousHash = GENESIS_HASH
    /\ report.is_valid /\ report.verified_count = 1

EntryConsistent(transactions, s, i) ==
    LET t == transactions[s[i]]
    IN  /\ t.currentHash = compute_hash(t)
        /\ i = 1 => t.previousHash = GENESIS_HASH
        /\ i > 1 => t.previousHash = transactions[s[i - 1]].currentHash

\* C25: a report that is not valid names the smallest index of the
\* timestamp order at which the hash check or the link check fails, holds
\* exactly one error, that of this index, and has verified_count equal to
\* this index.
C25_FirstFailureReported ==
    (verified /\ ~report.is_valid) =>
        LET s == AscendingOrder(chain)
            k == report.failed_at_index
        IN  /\ k \in 0..(Len(chain) - 1)
            /\ ~EntryConsistent(chain, s, k + 1)
            /\ \A i \in 1..k : EntryConsistent(chain, s, i)
            /\ Len(report.errors) = 1
            /\ report.errors[1].index = k
            /\ report.errors[1].transaction_id = chain[s[k + 1]].id
            /\ report.verified_count = k

C25_Witness ==
    /\ verified /\ ~report.is_valid /\ Len(chain) >= 3
    /\ report.failed_at_index = 1 /\ report.verified_count = 1
    /\ EntryConsistent(chain, AscendingOrder(chain), 3)

\* The parts of C26 that do not concern integrity_score
ReportCountsConsistent ==
    /\ report.total_transactions = Len(chain)
    /\ report.verified_count \in 0..report.total_transactions
    /\ report.is_valid <=> report.verified_count = report.total_transactions
    /\ report.is_valid <=> report.errors = <<>>

\* C26 (as claimed): every report is consistent and its integrity_score
\* (in hundredths of a percent) equals verified_count / total_transactions
\* * 100, 100 for the empty list.
C26_ReportConsistentExactScore ==
    verified =>
        /\ ReportCountsConsistent
        /\ IF Len(chain) = 0 THEN report.integrity_score = 10000
           ELSE report.integrity_score * report.total_transactions
                    = report.verified_count * 10000

\* C26 (amended): the same with integrity_score equal to verified_count /
\* total_transactions * 100 rounded to two decimals, that is, within half a
\* hundredth of it.
C26_ReportConsistentRoundedScore ==
    verified =>
        /\ ReportCountsConsistent
        /\ IF Len(chain) = 0 THEN report.integrity_score = 10000
           ELSE LET d == report.integrity_score * report.total_transactions
                             - report.verified_count * 10000
                IN  2 * d <= report.total_transactions
                    /\ 2 * d >= 0 - report.total_transactions

C26_Witness ==
    /\ verified /\ Len(chain) = 3 /\ report.verified_count = 2
    /\ report.integrity_score = 6667 /\ ~report.is_valid

\* The report says the link of the entry at index i (0-based) is broken
FailsWithBrokenLinkAt(i) ==
    /\ ~report.is_valid
    /\ report.failed_at_index = i
    /\ report.errors[1].error = "Broken chain link"

\* The list was valid, one field of the entry at sorted index k < n-1 was
\* edited, only that entry's currentHash was recomputed, and the result was
\* verified
EditedAndRehashed ==
    /\ verified /\ phase = "repaired" /\ repair.op = "rehash"
    /\ edit.was_valid
    /\ edit.k < Len(chain) - 1

\* C27 (as claimed): after an edit of any hashed field of the entry at
\* sorted index k < n-1 of a valid chain and a recomputation of that
\* entry's currentHash only, verification fails at index k+1 with
\* 'Broken chain link'.
C27_RehashedEditBreaksNextLink ==
    (EditedAndRehashed /\ edit.field \in HashedFields) =>
        FailsWithBrokenLinkAt(edit.k + 1)

\* C27 (amended): the same for an edit of a hashed field other than
\* previousHash that keeps the timestamp order of the entries and does not
\* switch billDueAt between absent and 0.
C27_RehashedFieldEditBreaksNextLink ==
    (/\ EditedAndRehashed
     /\ edit.field \in HashedFields \ {"previousHash"}
     /\ edit.order_kept
     /\ ~edit.absent_to_zero) =>
        FailsWithBrokenLinkAt(edit.k + 1)

C27_Witness ==
    /\ EditedAndRehashed /\ edit.field = "amount" /\ edit.k = 1
    /\ Len(chain) = 3
    /\ FailsWithBrokenLinkAt(2)

\* C28: the list returned by rechain_transactions is in ascending
\* timestamp order, whatever the input list and from_index.
C28_RechainedListSorted ==
    (phase = "repaired" /\ repair.op = "rechain") =>
        \A i \in 1..(Len(chain) - 1) : SortKey(chain[i]) <= SortKey(chain[i + 1])

\* The level above `level` of the reference Merkle fold: node i is the hash
\* of nodes 2i-1 and 2i put together, of node 2i-1 with itself when there is
\* no node 2i
ReferenceLevelAbove(level) ==
    [i \in 1..((Len(level) + 1) \div 2) |->
        Sha256(level[2 * i - 1]
                 \o (IF 2 * i <= Len(level) THEN level[2 * i]
                     ELSE level[2 * i - 1]))]

\* The root of the reference fold over a non-empty list of leaves
RECURSIVE ReferenceRoot(_)
ReferenceRoot(level) ==
    IF Len(level) = 1 THEN level[1]
    ELSE ReferenceRoot(ReferenceLevelAbove(level))

LeavesOf(transactions) ==
    [i \in 1..Len(transactions) |-> transactions[i].currentHash]

\* C29: on a non-empty list generate_merkle_tree returns the reference
\* Merkle fold over the currentHash values in list order: the first level
\* of the tree is the leaves, each further level is the reference level
\* above the one before, the last level is the root alone, a single leaf is
\* its own root; and a list of an odd number >= 3 of leaves has the root of
\* the same list with its last leaf repeated.
C29_MerkleReferenceFold ==
    (result.op = "generate_merkle_tree" /\ sample # <<>>) =>
        LET n == Len(sample)
            tree == result.tree
        IN  /\ tree[1] = LeavesOf(sample)
            /\ \A l \in 2..Len(tree) : tree[l] = ReferenceLevelAbove(tree[l - 1])
            /\ tree[Len(tree)] = <<result.root>>
            /\ result.root = ReferenceRoot(LeavesOf(sample))
            /\ n = 1 => result.root = sample[1].currentHash
            /\ (n >= 3 /\ n % 2 = 1) =>
                  generate_merkle_tree(Append(sample, sample[n])).root
                      = result.root

C29_Witness ==
    /\ result.op = "generate_merkle_tree" /\ Len(sample) = 3
    /\ sample[1].currentHash # sample[3].currentHash
    /\ sample[2].currentHash # sample[3].currentHash
    /\ Len(result.tree) = 3
    /\ result.root =
          Sha256(Sha256(sample[1].currentHash \o sample[2].currentHash)
                   \o Sha256(sample[3].currentHash \o sample[3].currentHash))

\* Request r is answered from an idempotency record or goes on to create a
\* transaction: the step out of check_idempotency
IdempotencyChecked(r) ==
    req[r].pc = "start" /\ req'[r].pc # "start"

\* Request q has completed with a transaction and an idempotency record of
\* its own, and r carries q's Idempotency-Key and payload
RepeatsCompleted(r, q) ==
    /\ q # r
    /\ req[q].pc = "done" /\ req[q].response # <<>>
    /\ req[q].stored_at # None
    /\ req[r].key # "" /\ req[r].key = req[q].key
    /\ req[r].payload = req[q].payload

\* Request r returns the transaction q created and stores nothing
ReplaysResponseOf(r, q) ==
    /\ req'[r].pc = "done"
    /\ req'[r].response = req[q].response
    /\ req'[r].response[1].id = req[q].tx[1].id
    /\ db' = db
    /\ Len(Ledger(req[r].user))' = Len(Ledger(req[r].user))

\* C24 (as claimed): a request with the Idempotency-Key and payload of an
\* already completed request returns the transaction that request created
\* and stores no transaction.
C24_RepeatReturnsFirstTransaction ==
    [][\A r, q \in Requests :
          (IdempotencyChecked(r) /\ RepeatsCompleted(r, q))
              => ReplaysResponseOf(r, q)]_vars

\* C24 (amended): the same for a request checked less than 24 hours after
\* the completed request stored its idempotency record.
C24_RepeatWithinTtlReturnsFirstTransaction ==
    [][\A r, q \in Requests :
          (/\ IdempotencyChecked(r)
           /\ RepeatsCompleted(r, q)
           /\ clock < req[q].stored_at + IdempotencyTtl)
              => ReplaysResponseOf(r, q)]_vars

\* A repeat was answered from the record of the first request, two ticks
\* after it was stored
C24_Witness ==
    \E r, q \in Requests :
        /\ r # q
        /\ req[q].pc = "done" /\ req[q].stored_at # None
        /\ req[r].pc = "done" /\ req[r].stored_at = None
        /\ req[r].key # "" /\ req[r].key = req[q].key
        /\ req[r].payload = req[q].payload
        /\ req[r].tx = <<>>
        /\ req[r].response = req[q].response
        /\ Len(db) = 1
        /\ clock >= req[q].stored_at + 2
        /\ clock < req[q].stored_at + IdempotencyTtl

\* How many entries of the list carry the id and satisfy Rule
FlaggedBy(transactions, id, Rule(_)) ==
    Cardinality({p \in 1..Len(transactions) :
                    transactions[p].id = id /\ Rule(transactions[p])})

\* C30: the analysis holds one "Future timestamp" pattern for each entry
\* whose timestamp is above current_time + 60000, one "Unusually large
\* amount" pattern for each entry whose amount is above 10000000 and one
\* "Negative amount" pattern for each entry whose amount is below 0, each
\* naming the entry's id, and no other pattern of these three kinds: an
\* entry at current_time + 60000, of amount 10000000 or of amount 0 gets
\* none; a flagged entry's id is listed as suspicious; the empty list gives
\* no pattern, no suspicious id and risk_score 0.
C30_FlagsAboveLimitsOnly ==
    result.op = "detect_tampering_patterns" =>
        LET analysis == result.analysis
            Future(t) == SortKey(t) > result.current_time + 60000
            Large(t) == Above(t.amount, 10000000)
            Negative(t) == BelowZero(t.amount)
        IN  /\ sample = <<>> =>
                  /\ analysis.suspicious_transactions = {}
                  /\ analysis.patterns = <<>>
                  /\ analysis.risk_score = 0
            /\ \A id \in IdsOf(sample) :
                  /\ Occurrences(analysis.patterns,
                         "Future timestamp detected in transaction " \o id)
                       = FlaggedBy(sample, id, Future)
                  /\ Occurrences(analysis.patterns,
                         "Unusually large amount detected in transaction " \o id)
                       = FlaggedBy(sample, id, Large)
                  /\ Occurrences(analysis.patterns,
                         "Negative amount detected in transaction " \o id)
                       = FlaggedBy(sample, id, Negative)
                  /\ (FlaggedBy(sample, id, Future) + FlaggedBy(sample, id, Large)
                         + FlaggedBy(sample, id, Negative) > 0)
                       => id \in analysis.suspicious_transactions

\* An entry stamped current_time + 60000 with amount 0.0 gets no pattern;
\* next to it an entry stamped a millisecond later with amount 10000000.0
\* gets the future-timestamp pattern alone
C30_Witness ==
    /\ result.op = "detect_tampering_patterns" /\ result.current_time = DayMs
    /\ Len(sample) = 2
    /\ sample[1].id = "tx_1" /\ sample[1].timestamp = DayMs + 60000
    /\ sample[1].amount = Float(0, 0)
    /\ sample[2].id = "tx_2" /\ sample[2].timestamp = DayMs + 60001
    /\ sample[2].amount = Float(10000000, 0)
    /\ result.analysis.patterns =
          <<"Future timestamp detected in transaction tx_2">>
    /\ result.analysis.suspicious_transactions = {"tx_2"}
    /\ result.analysis.risk_score = 20
\* C31: the list returned by rechain_transactions called with from_index 0
\* verifies valid, whatever previousHash and currentHash the entries
\* carried and whatever the order and the equality of their timestamps.
C31_RechainFromStartValid ==
    (/\ verified /\ phase = "repaired"
     /\ repair.op = "rechain" /\ repair.from_index = 0) =>
        (report.is_valid /\ report.verified_count = Len(chain))

\* An edited hash and two entries of one timestamp, appended out of order
C31_Witness ==
    /\ verified /\ phase = "repaired"
    /\ repair.op = "rechain" /\ repair.from_index = 0
    /\ Len(chain) = 3 /\ ~ordered
    /\ \E i \in 1..2 : chain[i].timestamp = chain[i + 1].timestamp
    /\ edit.field \in {"previousHash", "currentHash"} /\ ~edit.was_valid
    /\ report.is_valid

\* 0-based index in timestamp order of the entry at list position p, stated
\* without the sorting algorithm
AscendingIndexOf(transactions, p) ==
    (CHOOSE k \in 1..Len(transactions) :
        AscendingOrder(transactions)[k] = p) - 1

\* Entries a and b agree on every field but previousHash and currentHash
SameButHashes(a, b) ==
    \A f \in Fields \ {"previousHash", "currentHash"} : a[f] = b[f]

\* C32: the list returned by rechain_transactions with from_index >= 0
\* holds the entries of the input, each once: every returned entry agrees
\* with its input entry on id, amount, currency, categoryId, timestamp,
\* billDueAt, nonce and version, and is equal to it when the input entry
\* stands before from_index in timestamp order.
C32_RechainTouchesOnlyLaterHashes ==
    [][RechainStep =>
          /\ Len(chain') = Len(chain)
          /\ \E f \in Rearrangements(Len(chain)) :
                \A i \in 1..Len(chain) :
                    /\ SameButHashes(chain'[i], chain[f[i]])
                    /\ AscendingIndexOf(chain, f[i]) < repair'.from_index
                          => chain'[i] = chain[f[i]]]_vars

\* A rechain from index 1 or 2 of a list whose first entry carried a wrong
\* hash, which it still carries
C32_Witness ==
    /\ phase = "repaired" /\ repair.op = "rechain"
    /\ repair.from_index \in 1..(Len(chain) - 1)
    /\ Len(chain) = 3
    /\ edit.field = "currentHash" /\ edit.k = 0
    /\ chain[1].currentHash # compute_hash(chain[1])
    /\ chain[3].currentHash = compute_hash(chain[3])

\* No two entries of the list carry the same timestamp
DistinctTimestamps(transactions) ==
    \A i, j \in 1..Len(transactions) :
        i # j => SortKey(transactions[i]) # SortKey(transactions[j])

\* The entries of the list, in list order, whose 0-based index in timestamp
\* order lies in lo..hi
TimestampSlice(transactions, lo, hi) ==
    LET kept == SelectSeq([p \in 1..Len(transactions) |-> p],
                          LAMBDA p : AscendingIndexOf(transactions, p) \in lo..hi)
    IN  [i \in 1..Len(kept) |-> transactions[kept[i]]]

\* C33: when a list of pairwise distinct timestamps verifies valid, each
\* of its timestamp-prefixes (the first m entries in timestamp order, m
\* from 0 to all) verifies valid, and each of its non-empty
\* timestamp-suffixes without the first entry verifies invalid at index 0
\* with 'Invalid genesis previousHash'.
C33_ValidityPrefixClosed ==
    (verified /\ report.is_valid /\ DistinctTimestamps(chain)) =>
        LET n == Len(chain)
        IN  /\ \A m \in 0..n :
                  verify_chain_integrity(TimestampSlice(chain, 0, m - 1)).is_valid
            /\ \A m \in 1..(n - 1) :
                  LET r == verify_chain_integrity(TimestampSlice(chain, m, n - 1))
                  IN  /\ ~r.is_valid
                      /\ r.failed_at_index = 0
                      /\ r.verified_count = 0
                      /\ r.errors[1].error = "Invalid genesis previousHash"

C33_Witness ==
    /\ verified /\ report.is_valid /\ DistinctTimestamps(chain)
    /\ Len(chain) = 3
    /\ Len(TimestampSlice(chain, 1, 2)) = 2
    /\ verify_chain_integrity(TimestampSlice(chain, 0, 1)).verified_count = 2
    /\ verify_chain_integrity(TimestampSlice(chain, 1, 2)).errors[1].error
          = "Invalid genesis previousHash"

\* C34: a list of pairwise distinct timestamps gets the same is_valid,
\* verified_count, failed_at_index and failed_transaction_id whatever the
\* order its entries are passed in.
C34_ReportIndependentOfListOrder ==
    (verified /\ chain # <<>> /\ DistinctTimestamps(chain)) =>
        \A f \in Rearrangements(Len(chain)) :
            LET r == verify_chain_integrity([i \in 1..Len(chain) |-> chain[f[i]]])
            IN  /\ r.is_valid = report.is_valid
                /\ r.verified_count = report.verified_count
                /\ r.failed_at_index = report.failed_at_index
                /\ r.failed_transaction_id = report.failed_transaction_id

\* A list passed out of timestamp order whose second entry in that order
\* fails
C34_Witness ==
    /\ verified /\ DistinctTimestamps(chain) /\ Len(chain) = 3
    /\ AscendingOrder(chain) # <<1, 2, 3>>
    /\ ~report.is_valid /\ report.failed_at_index = 1

\* The positions of the transactions stored by request r
StoredFor(r) == {i \in 1..Len(db) : db[i].id = "uuid-" \o r}

\* C35 (as claimed): of two requests that carry the same Idempotency-Key
\* and the same payload, handled in any interleaving within the life of an
\* idempotency record, at most one stores a transaction.
C35_OneTransactionPerKey ==
    \A r, q \in Requests :
        (/\ r # q
         /\ req[r].key # "" /\ req[r].key = req[q].key
         /\ req[r].payload = req[q].payload
         /\ clock < StartTime + IdempotencyTtl) =>
            Cardinality(StoredFor(r) \cup StoredFor(q)) <= 1

\* C36 (as claimed): a request that is answered with a transaction is
\* answered with one stored for its own user.
C36_ReplayStaysWithOwner ==
    \A r \in Requests :
        (req[r].pc = "done" /\ req[r].response # <<>>) =>
            \A i \in 1..Len(db) :
                db[i].id = req[r].response[1].id => db_owner[i] = req[r].user

\* C38 (as claimed): on any host the end-of-day millisecond of each day
\* plus 1 is the start-of-day millisecond of the next day, and every entry
\* of the list is taken into the daily root of exactly one day.
C38_DailyWindowsPartitionTime ==
    result.op = "get_daily_merkle_root" =>
        /\ \A d \in Days :
              EndOfDay(d, result.tz) + 1 = StartOfDay(d + 1, result.tz)
        /\ \A p \in 1..Len(sample) :
              Cardinality({d \in Days :
                  \E q \in 1..Len(DailyTransactions(sample, d, result.tz)) :
                      DailyTransactions(sample, d, result.tz)[q] = sample[p]}) = 1

\* C37: the analysis holds no "Timestamp regression" pattern, whatever the
\* order and the distance of the timestamps of the list.
C37_NoTimestampRegression ==
    result.op = "detect_tampering_patterns" =>
        \A id \in IdsOf(sample) :
            Occurrences(result.analysis.patterns,
                "Timestamp regression detected in transaction " \o id) = 0

\* A list passed with an entry almost a day older than the entry before it
C37_Witness ==
    /\ result.op = "detect_tampering_patterns" /\ Len(sample) = 3
    /\ sample[2].timestamp < sample[1].timestamp - 300000
    /\ sample[3].timestamp > sample[2].timestamp
    /\ \A k \in 1..Len(result.analysis.patterns) :
          \A id \in IdsOf(sample) :
              result.analysis.patterns[k]
                  # "Timestamp regression detected in transaction " \o id


====
